---- MODULE Spec2Model ----
(***************************************************************************)
(* SMLayerBackground (src/src/Layer_Background_Impl.h): the double         *)
(* buffered background layer of SmartMatrix.                               *)
(*                                                                         *)
(* Two execution contexts share the layer:                                 *)
(*   - the application context (drawPixel, swapBuffers), whose position is *)
(*     pc; it can be interrupted between any two accesses to shared state; *)
(*   - the refresh context (frameRefreshCallback, then fillRefreshRow for  *)
(*     each hardware row), whose position is isrpc.  frameRefreshCallback  *)
(*     is an interrupt service routine: it preempts the application and    *)
(*     runs to completion, so no application step is taken while           *)
(*     isrpc is inside it (InCallback).                                    *)
(* A pointer into one of the two frame buffers is modelled by the index    *)
(* of the buffer it points to.                                             *)
(*                                                                         *)
(* Spec is the swap protocol, on a small panel in one configuration.       *)
(* RotSpec applies the drawing operations under the four rotations,        *)
(* CompSpec runs one compositing pass of fillRefreshRow under every        *)
(* configuration, LutSpec sets the brightness while frames are shown.      *)
(* BeginSpec runs begin() statement by statement after either constructor, *)
(* FrameSpec hands filled frames over with swapBuffers(false), PtrSpec     *)
(* adds setBackBuffer to Spec, ShiftSpec adds setBrightnessShifts.         *)
(***************************************************************************)
EXTENDS Integers, Sequences, FiniteSets, TLC

\* ----------------------------------------------------------------- bounds
MatrixWidth == 2
\* the panel the drawing operations and the compositor are exercised on
PanelWidth == 2
PanelHeight == 3

\* ---------------------------------------------------------- configuration
\* the layer is constructed for a panel of one row of MatrixWidth pixels
MatrixHeight == 1
NumBuffers == 2
\* backgroundBrightness of a layer shown undimmed
FullBrightness == 255
\* the largest brightnessShifts the driver passes
MaxBrightnessShifts == 4

Bufs == 0 .. (NumBuffers - 1)
\* a pixel is <<red, green, blue>>.  No drawing operation and no step of the
\* swap looks at the color it stores, so the application draws with two colors:
\* the one begin() clears the buffers to and one other.
ZeroPixel == <<0, 0, 0>>
Pixels == {ZeroPixel, <<1, 1, 1>>}
Rotations == {"rotation0", "rotation90", "rotation180", "rotation270"}

VARIABLES
    esp32,                    \* the build defines ESP32: begin() allocates
    assertsOn,                \* the build does not define NDEBUG: assert() tests
    bufferMem,                \* backgroundBuffers[0], [1] as pointers: what they address
    lutMem,                   \* backgroundColorCorrectionLUT as a pointer
    beginpc,                  \* position of begin()
    begun,                    \* begin() has run
    idealBrightnessShifts,
    pendingIdealBrightnessShifts,
    layerRotation,            \* this->layerRotation
    matrixWidth,              \* this->matrixWidth
    matrixHeight,             \* this->matrixHeight
    wideRGB,                  \* sizeof(RGB) > 3: the pixel type has 16 bit channels
    backgroundBrightness,
    ccEnabled,
    chromaKeyEnabled,         \* isChromaKeyEnabled()
    chromaKeyColor,           \* getChromaKeyColor()
    firstOverlayLine,
    lastOverlayLine,
    brightnessShifts,         \* the argument the driver passes to fillRefreshRow
    wideRow,                  \* the driver's rows are rgb48 (TRUE) or rgb24 (FALSE)
    backgroundBuffers,        \* contents of backgroundBuffers[0], [1]
    currentDrawBuffer,
    currentRefreshBuffer,
    currentDrawBufferPtr,
    currentRefreshBufferPtr,
    swapPending,
    \* application context
    pc,                       \* position of the application
    copy,                     \* swapBuffers: the argument
    dpPtr,                    \* loadPixelToDrawBuffer: the pointer loaded
    dpStartedPending,         \* history: swapPending when dpPtr was loaded
    cpDst, cpSrc, cpIdx,      \* swapBuffers: memcpy destination, source, progress
    \* refresh context
    isrpc,                    \* position of the refresh context
    newDrawBuffer,            \* handleBufferSwap: the local
    sawPending,               \* handleBufferSwap: value of swapPending tested at entry
    entryDraw, entryRefresh,  \* history: the roles when this tick's handleBufferSwap began
    rowY,                     \* next hardware row the driver composites
    fillPtr,                  \* fillRefreshRow: buffer its ptr points into (-1: none yet)
    rowRead,                  \* fillRefreshRow: the pixels read through ptr
    refreshRow,               \* the driver's row that fillRefreshRow composites into
    backgroundColorCorrectionLUT, \* the brightness the table was computed for (-1: never)
    \* history
    outstanding,              \* requests made by swapBuffers minus exchanges performed
    lateStore                 \* the buffer drawPixel stored into while the swap now
                              \* pending or last performed was pending (-1: none)

config == <<layerRotation, matrixWidth, matrixHeight, wideRGB, backgroundBrightness,
            ccEnabled, chromaKeyEnabled, chromaKeyColor, firstOverlayLine,
            lastOverlayLine, brightnessShifts, wideRow>>
memory == <<esp32, assertsOn, bufferMem, lutMem, beginpc>>
shiftVars == <<idealBrightnessShifts, pendingIdealBrightnessShifts>>
shared == <<memory, begun, shiftVars, config, backgroundBuffers, currentDrawBuffer,
            currentRefreshBuffer, currentDrawBufferPtr, currentRefreshBufferPtr,
            swapPending>>
roleVars == <<currentDrawBuffer, currentRefreshBuffer, currentDrawBufferPtr,
              currentRefreshBufferPtr>>
appVars == <<pc, copy, dpPtr, dpStartedPending, cpDst, cpSrc, cpIdx>>
dpVars == <<dpPtr, dpStartedPending>>
cpVars == <<cpDst, cpSrc, cpIdx>>
passVars == <<rowY, backgroundColorCorrectionLUT>>
rowVars == <<fillPtr, rowRead, refreshRow>>
isrVars == <<isrpc, newDrawBuffer, sawPending, entryDraw, entryRefresh, passVars,
             rowVars>>
histVars == <<outstanding, lateStore>>
vars == <<shared, appVars, isrVars, histVars>>

\* ------------------------------------------------------------ layer state

\* backgroundBuffers[i] as a pointer: the buffer it addresses
BackgroundBuffersPtr(i) == i

NumCells == matrixWidth * matrixHeight
Cells == 0 .. (NumCells - 1)

\* localWidth / localHeight: the logical dimensions under the rotation
localWidth ==
    IF layerRotation \in {"rotation0", "rotation180"} THEN matrixWidth ELSE matrixHeight
localHeight ==
    IF layerRotation \in {"rotation0", "rotation180"} THEN matrixHeight ELSE matrixWidth

ZeroBuffer == [c \in Cells |-> ZeroPixel]

\* a row of the driver, all zero
ZeroRow == [i \in 1 .. matrixWidth |-> ZeroPixel]

\* The application and the refresh context at rest: no call in progress, no
\* frame being refreshed.
AtRest ==
    /\ pc = "idle"
    /\ copy = FALSE
    /\ dpPtr = 0 /\ dpStartedPending = FALSE
    /\ cpDst = 0 /\ cpSrc = 0 /\ cpIdx = 0
    /\ isrpc = "idle"
    /\ newDrawBuffer = 0
    /\ sawPending = FALSE
    /\ entryDraw = 0 /\ entryRefresh = 0
    /\ rowY = 0
    /\ fillPtr = -1
    /\ rowRead = << >>
    /\ outstanding = 0
    /\ lateStore = -1

\* 24 bit pixels shown at full brightness, uncorrected and without chroma key,
\* on rows of 24 bit pixels
PlainDisplay ==
    /\ wideRGB = FALSE
    /\ backgroundBrightness = FullBrightness
    /\ ccEnabled = FALSE
    /\ chromaKeyEnabled = FALSE
    /\ chromaKeyColor = ZeroPixel
    /\ firstOverlayLine = 0
    /\ lastOverlayLine = 0
    /\ brightnessShifts = 0
    /\ wideRow = FALSE

\* what a pointer field can hold: nothing, memory of the size asked for, or
\* whatever the storage of the object held
PointerValues == {"null", "valid", "stray"}

\* both frame buffers and the table are there
Allocated ==
    /\ bufferMem = [b \in Bufs |-> "valid"]
    /\ lutMem = "valid"

\* a build for the ESP32 with assert() active
CheckedBuild == esp32 = TRUE /\ assertsOn = TRUE

\* no brightness shift has been asked for
NoShiftsRequested == idealBrightnessShifts = 0 /\ pendingIdealBrightnessShifts = 0

\* begin() has returned with its memory, and the layer is left as configured
Operating ==
    /\ CheckedBuild
    /\ Allocated
    /\ beginpc = "done"
    /\ NoShiftsRequested

\* The constructed layer: begin() has not run, the role fields hold whatever
\* the storage held.  The layer keeps the rotation it is given at configuration,
\* here rotation0, on a panel of MatrixWidth by MatrixHeight.
Init ==
    /\ CheckedBuild
    /\ Allocated
    /\ beginpc = "roles"
    /\ NoShiftsRequested
    /\ begun = FALSE
    /\ layerRotation = "rotation0"
    /\ matrixWidth = MatrixWidth
    /\ matrixHeight = MatrixHeight
    /\ PlainDisplay
    /\ refreshRow = ZeroRow
    /\ backgroundColorCorrectionLUT = -1
    /\ backgroundBuffers = [b \in Bufs |-> ZeroBuffer]
    /\ currentDrawBuffer \in Bufs
    /\ currentRefreshBuffer \in Bufs
    /\ currentDrawBufferPtr \in Bufs
    /\ currentRefreshBufferPtr \in Bufs
    /\ swapPending \in BOOLEAN
    /\ AtRest

\* begin(), from currentDrawBuffer = 0 to its return: called once, before the
\* refresh interrupt is started
Begin ==
    /\ ~begun
    /\ beginpc = "roles"
    /\ beginpc' = "done"
    /\ begun' = TRUE
    /\ currentDrawBuffer' = 0
    /\ currentRefreshBuffer' = 1
    /\ swapPending' = FALSE
    /\ currentDrawBufferPtr' = BackgroundBuffersPtr(0)
    /\ currentRefreshBufferPtr' = BackgroundBuffersPtr(1)
    /\ UNCHANGED <<esp32, assertsOn, bufferMem, lutMem, shiftVars, config,
                   backgroundBuffers, appVars, isrVars, histVars>>

\* the roles, the pointers and the flag as begin() leaves them
AfterBegin ==
    /\ begun = TRUE
    /\ currentDrawBuffer = 0
    /\ currentRefreshBuffer = 1
    /\ swapPending = FALSE
    /\ currentDrawBufferPtr = BackgroundBuffersPtr(0)
    /\ currentRefreshBufferPtr = BackgroundBuffersPtr(1)

\* frameRefreshCallback is executing: the application is preempted
InCallback == isrpc \notin {"idle", "rows"}

AppRuns == begun /\ ~InCallback

\* ------------------------------------------------------ drawing (application)

\* mutant: rotation270 is mapped as a mirror image
MapToHardwareMirrored(x, y) ==
    IF layerRotation = "rotation0" THEN <<x, y>>
    ELSE IF layerRotation = "rotation180"
         THEN <<(matrixWidth - 1) - x, (matrixHeight - 1) - y>>
    ELSE IF layerRotation = "rotation90"
         THEN <<(matrixWidth - 1) - y, x>>
    ELSE <<y, x>>

\* drawPixel's rotation mapping: logical (x, y) to hardware <<hwx, hwy>>
MapToHardware(x, y) ==
    IF layerRotation = "rotation0" THEN <<x, y>>
    ELSE IF layerRotation = "rotation180"
         THEN <<(matrixWidth - 1) - x, (matrixHeight - 1) - y>>
    ELSE IF layerRotation = "rotation90"
         THEN <<(matrixWidth - 1) - y, x>>
    ELSE <<y, (matrixHeight - 1) - x>>

\* mutant: the coordinate one past the edge is let through
OutOfBoundsLax(x, y) == x < 0 \/ y < 0 \/ x > localWidth \/ y > localHeight

\* x < 0 || y < 0 || x >= localWidth || y >= localHeight
OutOfBounds(x, y) == x < 0 \/ y < 0 \/ x >= localWidth \/ y >= localHeight

\* offset used by loadPixelToDrawBuffer
CellOffset(hwx, hwy) == (hwy * matrixWidth) + hwx

\* the contents of a buffer after color is stored at each of the offsets; a
\* store at an offset outside the buffer does not change the buffer
StoreAll(buf, offsets, color) ==
    [cell \in Cells |-> IF cell \in offsets THEN color ELSE buf[cell]]

\* drawPixel(x, y, ..): the offsets loadPixelToDrawBuffer stores at
DrawPixel(x, y) ==
    IF OutOfBounds(x, y) THEN {}
    ELSE LET hw == MapToHardware(x, y) IN {CellOffset(hw[1], hw[2])}

\* mutant: readPixel maps rotation90 as drawPixel maps rotation270
ReadMapToHardwareTurned(x, y) ==
    IF layerRotation = "rotation0" THEN <<x, y>>
    ELSE IF layerRotation = "rotation180"
         THEN <<(matrixWidth - 1) - x, (matrixHeight - 1) - y>>
    ELSE IF layerRotation = "rotation90"
         THEN <<y, (matrixHeight - 1) - x>>
    ELSE <<y, (matrixHeight - 1) - x>>

\* readPixel's rotation mapping
ReadMapToHardware(x, y) ==
    IF layerRotation = "rotation0" THEN <<x, y>>
    ELSE IF layerRotation = "rotation180"
         THEN <<(matrixWidth - 1) - x, (matrixHeight - 1) - y>>
    ELSE IF layerRotation = "rotation90"
         THEN <<(matrixWidth - 1) - y, x>>
    ELSE <<y, (matrixHeight - 1) - x>>

\* readPixel(x, y): the offset readPixelFromDrawBuffer reads at, -1 if it reads none
ReadPixelCell(x, y) ==
    IF OutOfBounds(x, y) THEN -1
    ELSE LET hw == ReadMapToHardware(x, y) IN CellOffset(hw[1], hw[2])

\* what is found at an offset of a buffer; outside the buffer, whatever is there
Stray(buf, offset) == IF offset \in Cells THEN buf[offset] ELSE <<-1, -1, -1>>

\* readPixel(x, y) on a draw buffer of contents buf
ReadPixelOn(buf, x, y) ==
    IF OutOfBounds(x, y) THEN ZeroPixel ELSE Stray(buf, ReadPixelCell(x, y))

\* readPixel(x, y)
ReadPixel(x, y) == ReadPixelOn(backgroundBuffers[currentDrawBufferPtr], x, y)

\* a value converted to uint16_t
ToUint16(v) == v % 65536

\* drawHardwareHLine(x0, x1, y, ..): the offsets it stores at
DrawHardwareHLine(x0, x1, y) ==
    {CellOffset(i, ToUint16(y)) : i \in ToUint16(x0) .. ToUint16(x1)}

\* drawHardwareVLine(x, y0, y1, ..): the offsets it stores at
DrawHardwareVLine(x, y0, y1) ==
    {CellOffset(ToUint16(x), i) : i \in ToUint16(y0) .. ToUint16(y1)}

Min(a, b) == IF a < b THEN a ELSE b
Max(a, b) == IF a < b THEN b ELSE a

\* mutant: under rotation180 the ends of the line are not mirrored
DrawFastHLineUnmirrored(xa, xb, y) ==
    LET lo == Min(xa, xb)
        hi == Max(xa, xb)
        x0 == IF lo < 0 THEN 0 ELSE lo
        x1 == IF hi >= localWidth THEN localWidth - 1 ELSE hi
    IN  IF hi < 0 \/ lo >= localWidth \/ y < 0 \/ y >= localHeight THEN {}
        ELSE IF layerRotation = "rotation0" THEN DrawHardwareHLine(x0, x1, y)
        ELSE IF layerRotation = "rotation180"
             THEN DrawHardwareHLine(x0, x1, (matrixHeight - 1) - y)
        ELSE IF layerRotation = "rotation90"
             THEN DrawHardwareVLine((matrixWidth - 1) - y, x0, x1)
        ELSE DrawHardwareVLine(y, (matrixHeight - 1) - x1, (matrixHeight - 1) - x0)

\* drawFastHLine(xa, xb, y, ..): the offsets it stores at
DrawFastHLine(xa, xb, y) ==
    LET lo == Min(xa, xb)
        hi == Max(xa, xb)
        x0 == IF lo < 0 THEN 0 ELSE lo
        x1 == IF hi >= localWidth THEN localWidth - 1 ELSE hi
    IN  IF hi < 0 \/ lo >= localWidth \/ y < 0 \/ y >= localHeight THEN {}
        ELSE IF layerRotation = "rotation0" THEN DrawHardwareHLine(x0, x1, y)
        ELSE IF layerRotation = "rotation180"
             THEN DrawHardwareHLine((matrixWidth - 1) - x1, (matrixWidth - 1) - x0,
                                    (matrixHeight - 1) - y)
        ELSE IF layerRotation = "rotation90"
             THEN DrawHardwareVLine((matrixWidth - 1) - y, x0, x1)
        ELSE DrawHardwareVLine(y, (matrixHeight - 1) - x1, (matrixHeight - 1) - x0)

\* drawFastVLine(x, ya, yb, ..): the offsets it stores at
DrawFastVLine(x, ya, yb) ==
    LET lo == Min(ya, yb)
        hi == Max(ya, yb)
        y0 == IF lo < 0 THEN 0 ELSE lo
        y1 == IF hi >= localHeight THEN localHeight - 1 ELSE hi
    IN  IF hi < 0 \/ lo >= localHeight \/ x < 0 \/ x >= localWidth THEN {}
        ELSE IF layerRotation = "rotation0" THEN DrawHardwareVLine(x, y0, y1)
        ELSE IF layerRotation = "rotation180"
             THEN DrawHardwareVLine((matrixWidth - 1) - x, (matrixHeight - 1) - y1,
                                    (matrixHeight - 1) - y0)
        ELSE IF layerRotation = "rotation90"
             THEN DrawHardwareHLine((matrixWidth - 1) - y1, (matrixWidth - 1) - y0, x)
        ELSE DrawHardwareHLine(y0, y1, (matrixHeight - 1) - x)

\* fillScreen(..): fillRectangle(0, 0, localWidth - 1, localHeight - 1, ..) draws
\* one drawFastHLine for each y
FillScreen ==
    UNION {DrawFastHLine(0, localWidth - 1, i) : i \in 0 .. (localHeight - 1)}

\* coordinates the application passes: the logical area and one beyond each edge
XCoords == -1 .. localWidth
YCoords == -1 .. localHeight

\* mutant: loadPixelToDrawBuffer loads the refresh pointer
DrawPixelCallOfRefresh ==
    /\ AppRuns
    /\ pc = "idle"
    /\ pc' = "dp_store"
    /\ dpPtr' = currentRefreshBufferPtr
    /\ dpStartedPending' = swapPending
    /\ UNCHANGED <<shared, copy, cpVars, isrVars, histVars>>

\* drawPixel is called and runs up to the load of currentDrawBufferPtr in
\* loadPixelToDrawBuffer.  Its arguments do not depend on the layer's state and
\* are used by nothing before the store, so they are drawn at the store.
DrawPixelCall ==
    /\ AppRuns
    /\ pc = "idle"
    /\ pc' = "dp_store"
    /\ dpPtr' = currentDrawBufferPtr
    /\ dpStartedPending' = swapPending
    /\ UNCHANGED <<shared, copy, cpVars, isrVars, histVars>>

\* the rest of drawPixel(x, y, color): out of bounds it returns, else
\* loadPixelToDrawBuffer stores color through the loaded pointer
DrawPixelStore(x, y, color) ==
    /\ AppRuns
    /\ pc = "dp_store"
    /\ backgroundBuffers' =
          [backgroundBuffers EXCEPT ![dpPtr] = StoreAll(@, DrawPixel(x, y), color)]
    /\ pc' = "idle"
    /\ dpPtr' = 0 /\ dpStartedPending' = FALSE
    /\ lateStore' = IF swapPending /\ DrawPixel(x, y) # {} THEN dpPtr ELSE lateStore
    /\ UNCHANGED <<memory, begun, shiftVars, config, roleVars, swapPending, copy, cpVars,
                   isrVars, outstanding>>

\* drawFastHLine(x0, x1, y, color), through the draw pointer
DrawFastHLineCall(x0, x1, y, color) ==
    /\ AppRuns
    /\ pc = "idle"
    /\ backgroundBuffers' =
          [backgroundBuffers EXCEPT
              ![currentDrawBufferPtr] = StoreAll(@, DrawFastHLine(x0, x1, y), color)]
    /\ UNCHANGED <<memory, begun, shiftVars, config, roleVars, swapPending, appVars, isrVars, histVars>>

\* drawFastVLine(x, y0, y1, color), through the draw pointer
DrawFastVLineCall(x, y0, y1, color) ==
    /\ AppRuns
    /\ pc = "idle"
    /\ backgroundBuffers' =
          [backgroundBuffers EXCEPT
              ![currentDrawBufferPtr] = StoreAll(@, DrawFastVLine(x, y0, y1), color)]
    /\ UNCHANGED <<memory, begun, shiftVars, config, roleVars, swapPending, appVars, isrVars, histVars>>

\* fillScreen(color), through the draw pointer
FillScreenCall(color) ==
    /\ AppRuns
    /\ pc = "idle"
    /\ backgroundBuffers' =
          [backgroundBuffers EXCEPT ![currentDrawBufferPtr] = StoreAll(@, FillScreen, color)]
    /\ UNCHANGED <<memory, begun, shiftVars, config, roleVars, swapPending, appVars, isrVars, histVars>>

\* --------------------------------------------------- swapBuffers (application)

\* swapBuffers(c) is called
SwapBuffersCall(c) ==
    /\ AppRuns
    /\ pc = "idle"
    /\ pc' = "sb_wait1"
    /\ copy' = c
    /\ UNCHANGED <<shared, dpVars, cpVars, isrVars, histVars>>

\* mutant: swapBuffers does not wait for the previous swap
SbWait1NoWait ==
    /\ AppRuns
    /\ pc = "sb_wait1"
    /\ pc' = "sb_set"
    /\ UNCHANGED <<shared, copy, dpVars, cpVars, isrVars, histVars>>

\* while (swapPending);  (first loop): the loop is left when the flag reads false
SbWait1Exit ==
    /\ AppRuns
    /\ pc = "sb_wait1"
    /\ ~swapPending
    /\ pc' = "sb_set"
    /\ UNCHANGED <<shared, copy, dpVars, cpVars, isrVars, histVars>>

\* mutant: swapBuffers waits for its swap whatever the argument
SbSetWaiting ==
    /\ AppRuns
    /\ pc = "sb_set"
    /\ swapPending' = TRUE
    /\ outstanding' = outstanding + 1
    /\ lateStore' = -1
    /\ pc' = "sb_wait2" /\ UNCHANGED copy
    /\ UNCHANGED <<memory, begun, shiftVars, config, backgroundBuffers, roleVars, dpVars,
                   cpVars, isrVars>>

\* swapPending = true;  then if (copy)
SbSet ==
    /\ AppRuns
    /\ pc = "sb_set"
    /\ swapPending' = TRUE
    /\ outstanding' = outstanding + 1
    /\ lateStore' = -1
    /\ IF copy
       THEN pc' = "sb_wait2" /\ UNCHANGED copy
       ELSE pc' = "idle" /\ copy' = FALSE
    /\ UNCHANGED <<memory, begun, shiftVars, config, backgroundBuffers, roleVars, dpVars,
                   cpVars, isrVars>>

\* mutant: the second loop gives up and withdraws the request
SbWait2Timeout ==
    /\ AppRuns
    /\ pc = "sb_wait2"
    /\ swapPending' = FALSE
    /\ pc' = "sb_select"
    /\ UNCHANGED <<memory, begun, shiftVars, config, backgroundBuffers, roleVars, copy, dpVars,
                   cpVars, isrVars, histVars>>

\* while (swapPending);  (second loop, copy only)
SbWait2Exit ==
    /\ AppRuns
    /\ pc = "sb_wait2"
    /\ ~swapPending
    /\ pc' = "sb_select"
    /\ UNCHANGED <<shared, copy, dpVars, cpVars, isrVars, histVars>>

\* mutant: the memcpy is selected as if the roles were those before the exchange
CopyDirectionPreSwap(d) ==
    IF d # 0 THEN <<BackgroundBuffersPtr(0), BackgroundBuffersPtr(1)>>
             ELSE <<BackgroundBuffersPtr(1), BackgroundBuffersPtr(0)>>

\* if (currentDrawBuffer) memcpy(backgroundBuffers[1], backgroundBuffers[0], ..)
\* else                   memcpy(backgroundBuffers[0], backgroundBuffers[1], ..)
\* <<destination, source>> of the memcpy for a value d of currentDrawBuffer
CopyDirection(d) ==
    IF d # 0 THEN <<BackgroundBuffersPtr(1), BackgroundBuffersPtr(0)>>
             ELSE <<BackgroundBuffersPtr(0), BackgroundBuffersPtr(1)>>

\* mutant: the copy stops one cell short
CopyLengthShort == (matrixWidth * matrixHeight) - 1

\* the number of cells memcpy copies: matrixWidth * matrixHeight
CopyLength == matrixWidth * matrixHeight

\* the read of currentDrawBuffer that selects the memcpy
SbSelect ==
    /\ AppRuns
    /\ pc = "sb_select"
    /\ cpDst' = CopyDirection(currentDrawBuffer)[1]
    /\ cpSrc' = CopyDirection(currentDrawBuffer)[2]
    /\ cpIdx' = 0
    /\ pc' = "sb_copy"
    /\ UNCHANGED <<shared, copy, dpVars, isrVars, histVars>>

\* memcpy, one cell at a time; swapBuffers returns after the last cell
SbCopyCell ==
    /\ AppRuns
    /\ pc = "sb_copy"
    /\ backgroundBuffers' =
          [backgroundBuffers EXCEPT ![cpDst][cpIdx] = backgroundBuffers[cpSrc][cpIdx]]
    /\ IF cpIdx + 1 >= CopyLength
       THEN /\ pc' = "idle"
            /\ copy' = FALSE
            /\ cpDst' = 0 /\ cpSrc' = 0 /\ cpIdx' = 0
       ELSE /\ cpIdx' = cpIdx + 1
            /\ UNCHANGED <<pc, copy, cpDst, cpSrc>>
    /\ UNCHANGED <<memory, begun, shiftVars, config, roleVars, swapPending, dpVars, isrVars,
                   histVars>>

\* ------------------------------------------------------------ refresh context

\* the refresh interrupt fires: frameRefreshCallback is entered
TickBegin ==
    /\ begun
    /\ isrpc = "idle"
    /\ isrpc' = "hbs_check"
    /\ entryDraw' = currentDrawBuffer
    /\ entryRefresh' = currentRefreshBuffer
    /\ UNCHANGED <<shared, appVars, newDrawBuffer, sawPending, passVars, rowVars,
                   histVars>>

\* mutant: the test of the flag is inverted
HbsCheckInverted ==
    /\ isrpc = "hbs_check"
    /\ sawPending' = swapPending
    /\ isrpc' = IF swapPending THEN "lut" ELSE "hbs_1010"
    /\ UNCHANGED <<shared, appVars, newDrawBuffer, entryDraw, entryRefresh, passVars,
                   rowVars, histVars>>

\* handleBufferSwap: if (!swapPending) return;
HbsCheck ==
    /\ isrpc = "hbs_check"
    /\ sawPending' = swapPending
    /\ isrpc' = IF swapPending THEN "hbs_1010" ELSE "lut"
    /\ UNCHANGED <<shared, appVars, newDrawBuffer, entryDraw, entryRefresh, passVars,
                   rowVars, histVars>>

\* unsigned char newDrawBuffer = currentRefreshBuffer;
Hbs1010 ==
    /\ isrpc = "hbs_1010"
    /\ newDrawBuffer' = currentRefreshBuffer
    /\ isrpc' = "hbs_1012"
    /\ UNCHANGED <<shared, appVars, sawPending, entryDraw, entryRefresh, passVars,
                   rowVars, histVars>>

\* mutant: the refresh index is assigned from the temporary
Hbs1012Wrong ==
    /\ isrpc = "hbs_1012"
    /\ currentRefreshBuffer' = newDrawBuffer
    /\ isrpc' = "hbs_1013"
    /\ UNCHANGED <<memory, begun, shiftVars, config, backgroundBuffers, currentDrawBuffer,
                   currentDrawBufferPtr, currentRefreshBufferPtr, swapPending,
                   appVars, newDrawBuffer, sawPending, entryDraw, entryRefresh,
                   passVars, rowVars, histVars>>

\* currentRefreshBuffer = currentDrawBuffer;
Hbs1012 ==
    /\ isrpc = "hbs_1012"
    /\ currentRefreshBuffer' = currentDrawBuffer
    /\ isrpc' = "hbs_1013"
    /\ UNCHANGED <<memory, begun, shiftVars, config, backgroundBuffers, currentDrawBuffer,
                   currentDrawBufferPtr, currentRefreshBufferPtr, swapPending,
                   appVars, newDrawBuffer, sawPending, entryDraw, entryRefresh,
                   passVars, rowVars, histVars>>

\* mutant: the exchange without the temporary
Hbs1013NoTemp ==
    /\ isrpc = "hbs_1013"
    /\ currentDrawBuffer' = currentRefreshBuffer
    /\ outstanding' = outstanding - 1
    /\ isrpc' = "hbs_1015"
    /\ UNCHANGED <<memory, begun, shiftVars, config, backgroundBuffers, currentRefreshBuffer,
                   currentDrawBufferPtr, currentRefreshBufferPtr, swapPending,
                   appVars, newDrawBuffer, sawPending, entryDraw, entryRefresh,
                   passVars, rowVars, lateStore>>

\* currentDrawBuffer = newDrawBuffer;
Hbs1013 ==
    /\ isrpc = "hbs_1013"
    /\ currentDrawBuffer' = newDrawBuffer
    /\ outstanding' = outstanding - 1
    /\ isrpc' = "hbs_1015"
    /\ UNCHANGED <<memory, begun, shiftVars, config, backgroundBuffers, currentRefreshBuffer,
                   currentDrawBufferPtr, currentRefreshBufferPtr, swapPending,
                   appVars, newDrawBuffer, sawPending, entryDraw, entryRefresh,
                   passVars, rowVars, lateStore>>

\* mutant: the refresh pointer is taken from the old refresh index
Hbs1015Stale ==
    /\ isrpc = "hbs_1015"
    /\ currentRefreshBufferPtr' = BackgroundBuffersPtr(newDrawBuffer)
    /\ isrpc' = "hbs_1016"
    /\ UNCHANGED <<memory, begun, shiftVars, config, backgroundBuffers, currentDrawBuffer,
                   currentRefreshBuffer, currentDrawBufferPtr, swapPending,
                   appVars, newDrawBuffer, sawPending, entryDraw, entryRefresh,
                   passVars, rowVars, histVars>>

\* currentRefreshBufferPtr = backgroundBuffers[currentRefreshBuffer];
Hbs1015 ==
    /\ isrpc = "hbs_1015"
    /\ currentRefreshBufferPtr' = BackgroundBuffersPtr(currentRefreshBuffer)
    /\ isrpc' = "hbs_1016"
    /\ UNCHANGED <<memory, begun, shiftVars, config, backgroundBuffers, currentDrawBuffer,
                   currentRefreshBuffer, currentDrawBufferPtr, swapPending,
                   appVars, newDrawBuffer, sawPending, entryDraw, entryRefresh,
                   passVars, rowVars, histVars>>

\* mutant: the draw pointer is taken from the refresh index
Hbs1016Wrong ==
    /\ isrpc = "hbs_1016"
    /\ currentDrawBufferPtr' = BackgroundBuffersPtr(currentRefreshBuffer)
    /\ isrpc' = "hbs_1018"
    /\ UNCHANGED <<memory, begun, shiftVars, config, backgroundBuffers, currentDrawBuffer,
                   currentRefreshBuffer, currentRefreshBufferPtr, swapPending,
                   appVars, newDrawBuffer, sawPending, entryDraw, entryRefresh,
                   passVars, rowVars, histVars>>

\* currentDrawBufferPtr = backgroundBuffers[currentDrawBuffer];
Hbs1016 ==
    /\ isrpc = "hbs_1016"
    /\ currentDrawBufferPtr' = BackgroundBuffersPtr(currentDrawBuffer)
    /\ isrpc' = "hbs_1018"
    /\ UNCHANGED <<memory, begun, shiftVars, config, backgroundBuffers, currentDrawBuffer,
                   currentRefreshBuffer, currentRefreshBufferPtr, swapPending,
                   appVars, newDrawBuffer, sawPending, entryDraw, entryRefresh,
                   passVars, rowVars, histVars>>

\* mutant: handleBufferSwap returns without clearing the flag
Hbs1018NoClear ==
    /\ isrpc = "hbs_1018"
    /\ swapPending' = swapPending
    /\ isrpc' = "lut"
    /\ newDrawBuffer' = 0
    /\ UNCHANGED <<memory, begun, shiftVars, config, backgroundBuffers, roleVars, appVars,
                   sawPending, entryDraw, entryRefresh, passVars, rowVars,
                   histVars>>

\* swapPending = false;  and handleBufferSwap returns
Hbs1018 ==
    /\ isrpc = "hbs_1018"
    /\ swapPending' = FALSE
    /\ isrpc' = "lut"
    /\ newDrawBuffer' = 0
    /\ UNCHANGED <<memory, begun, shiftVars, config, backgroundBuffers, roleVars, appVars,
                   sawPending, entryDraw, entryRefresh, passVars, rowVars,
                   histVars>>

\* the number of entries the generator frameRefreshCallback calls writes:
\* calculate12BitBackgroundLUT if sizeof(RGB) > 3, else calculate8BitBackgroundLUT
GeneratorSize == IF wideRGB THEN 4096 ELSE 256

\* mutant: the table is left as it is once it has been computed
RebuildLUTOnce ==
    /\ isrpc = "lut"
    /\ backgroundColorCorrectionLUT' =
          IF backgroundColorCorrectionLUT = -1 THEN backgroundBrightness
          ELSE backgroundColorCorrectionLUT
    /\ isrpc' = "rows"
    /\ rowY' = 0
    /\ UNCHANGED <<shared, appVars, newDrawBuffer, sawPending, entryDraw,
                   entryRefresh, rowVars, histVars>>

\* calculate8BitBackgroundLUT / calculate12BitBackgroundLUT rebuild the table
\* from backgroundBrightness, and frameRefreshCallback returns; the driver
\* starts the compositing pass
RebuildLUT ==
    /\ isrpc = "lut"
    /\ backgroundColorCorrectionLUT' = backgroundBrightness
    /\ isrpc' = "rows"
    /\ rowY' = 0
    /\ UNCHANGED <<shared, appVars, newDrawBuffer, sawPending, entryDraw,
                   entryRefresh, rowVars, histVars>>

\* mutant: the row is taken from the draw buffer
GetCurrentRefreshRowOfDraw(y) ==
    [i \in 1 .. matrixWidth |->
        backgroundBuffers[currentDrawBufferPtr][(y * matrixWidth) + (i - 1)]]

\* getCurrentRefreshRow(y): the pixels of row y behind currentRefreshBufferPtr
GetCurrentRefreshRow(y) ==
    [i \in 1 .. matrixWidth |->
        backgroundBuffers[currentRefreshBufferPtr][(y * matrixWidth) + (i - 1)]]

\* ----------------------------------------------------- pixels and the table

Channels == 1 .. 3

\* the number of values of a channel: uint8_t in rgb24, uint16_t in rgb48
ChannelRange(wide) == IF wide THEN 65536 ELSE 256

\* an integer stored into a channel keeps its low bits
ToChannel(v, wide) == v % ChannelRange(wide)

\* assignment of a pixel of one type to a pixel of the other: rgb48 = rgb24
\* scales each channel up by 8 bits, rgb24 = rgb48 keeps the high 8 bits
ConvertPixel(p, fromWide, toWide) ==
    IF fromWide = toWide THEN p
    ELSE IF toWide THEN [c \in Channels |-> p[c] * 256]
    ELSE [c \in Channels |-> p[c] \div 256]

\* the number of entries of backgroundColorCorrectionLUT
LUTSize == IF wideRGB THEN 4096 ELSE 256

\* the index fillRefreshRow reads the table at:
\* channel << brightnessShifts, or channel >> (4 - brightnessShifts)
LUTIndex(channel, shifts) ==
    IF wideRGB THEN channel \div (2 ^ (4 - shifts)) ELSE channel * (2 ^ shifts)

\* entry i of the table computed for brightness b: a 16 bit level, linear in i
\* and in b
LUTEntry(b, i) ==
    IF wideRGB THEN (i * 16 * b) \div FullBrightness
    ELSE (i * 257 * b) \div FullBrightness

\* what a read past the end of the table, or of a table never computed, can give
StrayValues == {0, 65535}

\* backgroundColorCorrectionLUT[i]; stray is what the memory holds where the
\* table does not determine it
LUTRead(i, stray) ==
    IF i < LUTSize /\ backgroundColorCorrectionLUT # -1
    THEN LUTEntry(backgroundColorCorrectionLUT, i)
    ELSE stray

\* ------------------------------------------------------------ fillRefreshRow

\* newPixel for a pixel of the refresh buffer; it has the layer's pixel type
NewPixel(currentPixel, shifts, stray) ==
    IF ccEnabled
    THEN ConvertPixel([c \in Channels |-> LUTRead(LUTIndex(currentPixel[c], shifts), stray)],
                      TRUE, wideRGB)
    ELSE [c \in Channels |-> ToChannel(currentPixel[c] * (2 ^ shifts), wideRGB)]

\* brightLower and brightUpper, in 255ths
BrightLower == FullBrightness - backgroundBrightness
BrightUpper == backgroundBrightness

\* pixel * weight + pixel * weight in floating point, stored into a pixel of
\* the row's type
WeightedSum(p, wp, q, wq) ==
    [c \in Channels |-> ((p[c] * wp) + (q[c] * wq)) \div FullBrightness]

\* mutant: the weights of the row and of the layer are exchanged
BlendExchanged(old, newPixel) ==
    WeightedSum(old, BrightUpper, ConvertPixel(newPixel, wideRGB, wideRow), BrightLower)

\* refreshRow[i] * brightLower + newPixel * brightUpper
Blend(old, newPixel) ==
    WeightedSum(old, BrightLower, ConvertPixel(newPixel, wideRGB, wideRow), BrightUpper)

\* mutant: the key color is not tested
ChromaSkipNever(currentPixel) == FALSE

\* isChromaKeyEnabled() && currentPixel == getChromaKeyColor(): continue
ChromaSkip(currentPixel) == chromaKeyEnabled /\ currentPixel = chromaKeyColor

\* one turn of the loop: the new value of refreshRow[i].  Only the loops for
\* rows of rgb24 assign newPixel at full brightness; the corrected loop for rows
\* of rgb48 divides the blend by brightLower + brightUpper, which is 1.
ComposePixel(old, currentPixel, shifts, stray) ==
    IF ChromaSkip(currentPixel) THEN old
    ELSE LET newPixel == NewPixel(currentPixel, shifts, stray) IN
         IF ~wideRow /\ backgroundBrightness = FullBrightness
         THEN ConvertPixel(newPixel, wideRGB, wideRow)
         ELSE Blend(old, newPixel)

\* mutant: the first and the last overlay line are taken to be outside
OutsideOverlayLinesInclusive(hardwareY) ==
    hardwareY <= firstOverlayLine \/ hardwareY >= lastOverlayLine

\* hardwareY < firstOverlayLine || hardwareY > lastOverlayLine
OutsideOverlayLines(hardwareY) ==
    hardwareY < firstOverlayLine \/ hardwareY > lastOverlayLine

\* the two tests fillRefreshRow returns on before it touches anything
Bails(hardwareY) ==
    \/ backgroundBrightness = 0
    \/ chromaKeyEnabled /\ OutsideOverlayLines(hardwareY)

\* mutant: a layer of brightness 0 paints the row black
FillRowResultBlack(hardwareY, row, shifts, stray) ==
    IF backgroundBrightness = 0 THEN [i \in 1 .. matrixWidth |-> ZeroPixel]
    ELSE IF Bails(hardwareY) THEN row
    ELSE [i \in 1 .. matrixWidth |->
             ComposePixel(row[i], GetCurrentRefreshRow(hardwareY)[i], shifts, stray)]

\* the row fillRefreshRow(hardwareY, row, shifts) leaves
FillRowResult(hardwareY, row, shifts, stray) ==
    IF Bails(hardwareY) THEN row
    ELSE [i \in 1 .. matrixWidth |->
             ComposePixel(row[i], GetCurrentRefreshRow(hardwareY)[i], shifts, stray)]

\* mutant: fillRefreshRow blanks the row of the refresh buffer it has read
FillRefreshRowClearing ==
    /\ isrpc = "rows"
    /\ rowY < matrixHeight
    /\ IF Bails(rowY)
       THEN fillPtr' = -1 /\ rowRead' = << >>
       ELSE fillPtr' = currentRefreshBufferPtr /\ rowRead' = GetCurrentRefreshRow(rowY)
    /\ \E stray \in StrayValues :
          refreshRow' = FillRowResult(rowY, refreshRow, brightnessShifts, stray)
    /\ backgroundBuffers' =
          [backgroundBuffers EXCEPT
              ![currentRefreshBufferPtr] =
                  [c \in Cells |-> IF c \div matrixWidth = rowY THEN ZeroPixel ELSE @[c]]]
    /\ rowY' = rowY + 1
    /\ UNCHANGED <<memory, begun, shiftVars, config, roleVars, swapPending, appVars,
                   isrpc, newDrawBuffer, sawPending, entryDraw, entryRefresh,
                   backgroundColorCorrectionLUT, histVars>>

\* fillRefreshRow(rowY, refreshRow, brightnessShifts): unless it returns at once,
\* ptr = currentRefreshBufferPtr + hardwareY * matrixWidth, the loop's reads
\* currentPixel = *ptr++ and its stores to refreshRow[i]
FillRefreshRow ==
    /\ isrpc = "rows"
    /\ rowY < matrixHeight
    /\ IF Bails(rowY)
       THEN fillPtr' = -1 /\ rowRead' = << >>
       ELSE fillPtr' = currentRefreshBufferPtr /\ rowRead' = GetCurrentRefreshRow(rowY)
    /\ \E stray \in StrayValues :
          refreshRow' = FillRowResult(rowY, refreshRow, brightnessShifts, stray)
    /\ rowY' = rowY + 1
    /\ UNCHANGED <<shared, appVars, isrpc, newDrawBuffer, sawPending, entryDraw,
                   entryRefresh, backgroundColorCorrectionLUT, histVars>>

\* the driver has composited every row and sent them out: the frame's refresh
\* work is done
FrameEnd ==
    /\ isrpc = "rows"
    /\ rowY = matrixHeight
    /\ isrpc' = "idle"
    /\ rowY' = 0
    /\ sawPending' = FALSE
    /\ entryDraw' = 0 /\ entryRefresh' = 0
    /\ fillPtr' = -1
    /\ rowRead' = << >>
    /\ refreshRow' = ZeroRow
    /\ lateStore' = IF sawPending THEN -1 ELSE lateStore
    /\ UNCHANGED <<shared, appVars, newDrawBuffer, backgroundColorCorrectionLUT,
                   outstanding>>

\* ------------------------------------------------------------- specification

HandleBufferSwap ==
    HbsCheck \/ Hbs1010 \/ Hbs1012 \/ Hbs1013 \/ Hbs1015 \/ Hbs1016 \/ Hbs1018

RefreshNext == TickBegin \/ HandleBufferSwap \/ RebuildLUT \/ FillRefreshRow \/ FrameEnd

SwapBuffersNext == SbWait1Exit \/ SbSet \/ SbWait2Exit \/ SbSelect \/ SbCopyCell

AppNext ==
    \/ DrawPixelCall
    \/ \E x \in XCoords, y \in YCoords, color \in Pixels : DrawPixelStore(x, y, color)
    \/ \E c \in BOOLEAN : SwapBuffersCall(c)
    \/ SwapBuffersNext

Next == Begin \/ AppNext \/ RefreshNext

Spec == Init /\ [][Next]_vars

\* The refresh interrupt keeps firing and finishes its work; the application,
\* which runs between interrupts, keeps executing the swapBuffers it is in.
FairSpec == Spec /\ WF_vars(RefreshNext) /\ SF_vars(SwapBuffersNext)

\* ------------------------------------------ the drawing operations, rotated

\* every cell of a buffer holds the same pixel, as fillScreen leaves it
Uniform(buf) == \A c \in Cells : buf[c] = buf[0]

\* the draw buffer has just been filled
JustFilled == Uniform(backgroundBuffers[currentDrawBufferPtr])

\* The layer after begin() on a panel of PanelWidth by PanelHeight, in any of
\* the four rotations.
RotInit ==
    /\ Operating
    /\ layerRotation \in Rotations
    /\ matrixWidth = PanelWidth
    /\ matrixHeight = PanelHeight
    /\ PlainDisplay
    /\ refreshRow = ZeroRow
    /\ backgroundColorCorrectionLUT = -1
    /\ backgroundBuffers = [b \in Bufs |-> ZeroBuffer]
    /\ AfterBegin
    /\ AtRest

\* The application fills the screen, and applies each drawing operation to a
\* screen just filled.
RotNext ==
    \/ \E color \in Pixels : FillScreenCall(color)
    \/ JustFilled /\ DrawPixelCall
    \/ \E x \in XCoords, y \in YCoords, color \in Pixels : DrawPixelStore(x, y, color)
    \/ JustFilled /\ \E x0 \in XCoords, x1 \in XCoords, y \in YCoords, color \in Pixels :
                        DrawFastHLineCall(x0, x1, y, color)
    \/ JustFilled /\ \E x \in XCoords, y0 \in YCoords, y1 \in YCoords, color \in Pixels :
                        DrawFastVLineCall(x, y0, y1, color)

RotSpec == RotInit /\ [][RotNext]_vars

\* ---------------------------------------------------- one compositing pass

\* the pixels of the frames that are composited: a bright one, a dim one and
\* the key color
Palette ==
    IF wideRGB THEN << <<65535, 4096, 16>>, <<16, 32, 48>>, <<0, 4095, 0>> >>
    ELSE << <<255, 128, 1>>, <<1, 2, 3>>, <<0, 15, 0>> >>

\* frame k: the palette repeated cell after cell, starting at its k-th pixel
Frame(k) == [c \in Cells |-> Palette[((c + k) % Len(Palette)) + 1]]

\* what the rows of the driver hold when the layer is composited into them
PriorPixels ==
    IF wideRow THEN {ZeroPixel, <<51400, 25700, 12850>>}
    ELSE {ZeroPixel, <<200, 100, 50>>}

BrightnessValues == {0, 128, FullBrightness}

\* frameRefreshCallback has just returned, the table rebuilt, and the driver is
\* about to composite the rows of the frame in the refresh buffer; the layer
\* is configured in any way, with overlay lines firstOverlayLine .. lastOverlayLine.
CompInit ==
    /\ Operating
    /\ layerRotation = "rotation0"
    /\ matrixWidth = PanelWidth
    /\ matrixHeight = PanelHeight
    /\ wideRGB \in BOOLEAN
    /\ backgroundBrightness \in BrightnessValues
    /\ ccEnabled \in BOOLEAN
    /\ chromaKeyEnabled \in BOOLEAN
    /\ chromaKeyColor = Palette[Len(Palette)]
    /\ firstOverlayLine \in 0 .. (matrixHeight - 1)
    /\ lastOverlayLine \in firstOverlayLine .. (matrixHeight - 1)
    /\ brightnessShifts \in 0 .. MaxBrightnessShifts
    /\ wideRow \in BOOLEAN
    /\ \E p \in PriorPixels : refreshRow = [i \in 1 .. matrixWidth |-> p]
    /\ backgroundColorCorrectionLUT = backgroundBrightness
    /\ \E k \in 0 .. (Len(Palette) - 1) :
          backgroundBuffers = [b \in Bufs |-> IF b = 1 THEN Frame(k) ELSE ZeroBuffer]
    /\ AfterBegin
    /\ pc = "idle"
    /\ copy = FALSE
    /\ dpPtr = 0 /\ dpStartedPending = FALSE
    /\ cpDst = 0 /\ cpSrc = 0 /\ cpIdx = 0
    /\ isrpc = "rows"
    /\ newDrawBuffer = 0
    /\ sawPending = FALSE
    /\ entryDraw = currentDrawBuffer /\ entryRefresh = currentRefreshBuffer
    /\ rowY = 0
    /\ fillPtr = -1
    /\ rowRead = << >>
    /\ outstanding = 0
    /\ lateStore = -1

CompNext == FillRefreshRow \/ FrameEnd

CompSpec == CompInit /\ [][CompNext]_vars

\* ------------------------------------- brightness set while frames are shown

\* setBrightness(brightness)
SetBrightness(brightness) ==
    /\ AppRuns
    /\ pc = "idle"
    /\ backgroundBrightness' = brightness
    /\ UNCHANGED <<memory, begun, shiftVars, layerRotation, matrixWidth, matrixHeight, wideRGB, ccEnabled,
                   chromaKeyEnabled, chromaKeyColor, firstOverlayLine, lastOverlayLine,
                   brightnessShifts, wideRow, backgroundBuffers, roleVars, swapPending,
                   appVars, isrVars, histVars>>

\* enableColorCorrection(enabled)
EnableColorCorrection(enabled) ==
    /\ AppRuns
    /\ pc = "idle"
    /\ ccEnabled' = enabled
    /\ UNCHANGED <<memory, begun, shiftVars, layerRotation, matrixWidth, matrixHeight, wideRGB,
                   backgroundBrightness, chromaKeyEnabled, chromaKeyColor,
                   firstOverlayLine, lastOverlayLine, brightnessShifts, wideRow,
                   backgroundBuffers, roleVars, swapPending, appVars, isrVars,
                   histVars>>

\* The layer after begin(), showing a frame of 24 bit pixels through the table.
LutInit ==
    /\ Operating
    /\ layerRotation = "rotation0"
    /\ matrixWidth = PanelWidth
    /\ matrixHeight = PanelHeight
    /\ wideRGB = FALSE
    /\ backgroundBrightness \in BrightnessValues
    /\ ccEnabled = TRUE
    /\ chromaKeyEnabled = FALSE
    /\ chromaKeyColor = ZeroPixel
    /\ firstOverlayLine = 0
    /\ lastOverlayLine = 0
    /\ brightnessShifts = 0
    /\ wideRow = TRUE
    /\ refreshRow = ZeroRow
    /\ backgroundColorCorrectionLUT = -1
    /\ backgroundBuffers = [b \in Bufs |-> IF b = 1 THEN Frame(0) ELSE ZeroBuffer]
    /\ AfterBegin
    /\ AtRest

\* The application sets the brightness and switches the correction at any time
\* it runs; the refresh interrupt shows frame after frame.
LutNext ==
    \/ \E brightness \in BrightnessValues : SetBrightness(brightness)
    \/ \E enabled \in BOOLEAN : EnableColorCorrection(enabled)
    \/ TickBegin
    \/ HbsCheck
    \/ RebuildLUT
    \/ FillRefreshRow
    \/ FrameEnd

LutSpec == LutInit /\ [][LutNext]_vars

\* ------------------------------------------- frames handed over and shown

\* setBrightnessShifts(numShifts)
SetBrightnessShifts(numShifts) ==
    /\ AppRuns
    /\ pc = "idle"
    /\ pendingIdealBrightnessShifts' = numShifts
    /\ UNCHANGED <<memory, begun, idealBrightnessShifts, config, backgroundBuffers,
                   roleVars, swapPending, appVars, isrVars, histVars>>

\* the pixels the application fills its frames with
FramePixels == {<<10, 20, 30>>, <<200, 100, 50>>}

\* The layer after begin() on a panel of PanelWidth by PanelHeight, of either
\* pixel type and composited into rows of either type, without color
\* correction and chroma key.
FrameInit ==
    /\ Operating
    /\ begun = TRUE
    /\ layerRotation = "rotation0"
    /\ matrixWidth = PanelWidth
    /\ matrixHeight = PanelHeight
    /\ wideRGB \in BOOLEAN
    /\ backgroundBrightness = FullBrightness
    /\ ccEnabled = FALSE
    /\ chromaKeyEnabled = FALSE
    /\ chromaKeyColor = ZeroPixel
    /\ firstOverlayLine = 0
    /\ lastOverlayLine = 0
    /\ brightnessShifts = 0
    /\ wideRow \in BOOLEAN
    /\ refreshRow = ZeroRow
    /\ backgroundColorCorrectionLUT = -1
    /\ backgroundBuffers = [b \in Bufs |-> ZeroBuffer]
    /\ AfterBegin
    /\ AtRest

\* The application fills the screen, dims the layer and hands frames over with
\* swapBuffers(false); the refresh interrupt shows frame after frame.
FrameNext ==
    \/ \E color \in FramePixels : FillScreenCall(color)
    \/ \E brightness \in BrightnessValues : SetBrightness(brightness)
    \/ SwapBuffersCall(FALSE)
    \/ SbWait1Exit
    \/ SbSet
    \/ RefreshNext

FrameSpec == FrameInit /\ [][FrameNext]_vars

\* ------------------------------------------------ brightness shifts requested

\* The layer after begin(), as in Spec, with any number of shifts in effect.
ShiftInit ==
    /\ CheckedBuild
    /\ Allocated
    /\ beginpc = "done"
    /\ idealBrightnessShifts \in 0 .. MaxBrightnessShifts
    /\ pendingIdealBrightnessShifts = idealBrightnessShifts
    /\ layerRotation = "rotation0"
    /\ matrixWidth = MatrixWidth
    /\ matrixHeight = MatrixHeight
    /\ PlainDisplay
    /\ refreshRow = ZeroRow
    /\ backgroundColorCorrectionLUT = -1
    /\ backgroundBuffers = [b \in Bufs |-> ZeroBuffer]
    /\ AfterBegin
    /\ AtRest

\* The application asks for a number of brightness shifts while no swap is
\* pending, and requests swaps; the refresh interrupt performs them.
ShiftNext ==
    \/ ~swapPending /\ \E numShifts \in 0 .. MaxBrightnessShifts :
                          SetBrightnessShifts(numShifts)
    \/ \E c \in BOOLEAN : SwapBuffersCall(c)
    \/ SwapBuffersNext
    \/ RefreshNext

ShiftSpec == ShiftInit /\ [][ShiftNext]_vars

\* ------------------------------------------------------- the draw pointer set

\* setBackBuffer(newBuffer); the application passes a pointer it has obtained
\* from backBuffer() or getRealBackBuffer(): the start of one of the buffers
SetBackBuffer(newBuffer) ==
    /\ AppRuns
    /\ pc = "idle"
    /\ currentDrawBufferPtr' = newBuffer
    /\ UNCHANGED <<memory, begun, shiftVars, config, backgroundBuffers,
                   currentDrawBuffer, currentRefreshBuffer, currentRefreshBufferPtr,
                   swapPending, appVars, isrVars, histVars>>

\* The application draws, swaps and sets the draw pointer; the refresh
\* interrupt shows frame after frame.
PtrNext == Next \/ \E newBuffer \in Bufs : SetBackBuffer(BackgroundBuffersPtr(newBuffer))

PtrSpec == Init /\ [][PtrNext]_vars

\* ------------------------------------------------- construction and begin()

\* SMLayerBackground(buffer, width, height, colorCorrectionLUT): the pointers are
\* the caller's memory
SuppliedConstructor ==
    /\ bufferMem = [b \in Bufs |-> "valid"]
    /\ lutMem = "valid"

\* SMLayerBackground(width, height): the pointers are not assigned; they hold
\* what the storage of the object held, null in a static object
SelfAllocatingConstructor ==
    /\ bufferMem \in [Bufs -> {"null", "stray"}]
    /\ lutMem \in {"null", "stray"}

\* what malloc can return
MallocResults == {"valid", "null"}

\* The layer as one of the constructors leaves it, in any of the builds; the
\* memory and the role fields hold whatever they held.
BeginInit ==
    /\ esp32 \in BOOLEAN
    /\ assertsOn \in BOOLEAN
    /\ SuppliedConstructor \/ SelfAllocatingConstructor
    /\ beginpc = "start"
    /\ NoShiftsRequested
    /\ begun = FALSE
    /\ layerRotation = "rotation0"
    /\ matrixWidth = MatrixWidth
    /\ matrixHeight = MatrixHeight
    /\ PlainDisplay
    /\ refreshRow = ZeroRow
    /\ backgroundColorCorrectionLUT = -1
    /\ \E p \in Pixels : backgroundBuffers = [b \in Bufs |-> [c \in Cells |-> p]]
    /\ currentDrawBuffer \in Bufs
    /\ currentRefreshBuffer \in Bufs
    /\ currentDrawBufferPtr \in Bufs
    /\ currentRefreshBufferPtr \in Bufs
    /\ swapPending \in BOOLEAN
    /\ AtRest

\* begin() is entered: #if defined(ESP32), and
\* if (!backgroundBuffers[0] && !backgroundBuffers[1])
BeginEnter ==
    /\ beginpc = "start"
    /\ beginpc' = IF ~esp32 THEN "roles"
                  ELSE IF bufferMem[0] = "null" /\ bufferMem[1] = "null" THEN "malloc0"
                  ELSE "test_lut"
    /\ UNCHANGED <<esp32, assertsOn, bufferMem, lutMem, begun, shiftVars, config,
                   backgroundBuffers, roleVars, swapPending, appVars, isrVars,
                   histVars>>

\* backgroundBuffers[b] = ESPmalloc(..); assert(backgroundBuffers[b] != NULL);
BeginAllocBuffer(b, got) ==
    /\ beginpc = (IF b = 0 THEN "malloc0" ELSE "malloc1")
    /\ bufferMem' = [bufferMem EXCEPT ![b] = got]
    /\ beginpc' = IF got = "null" /\ assertsOn THEN "aborted"
                  ELSE IF b = 0 THEN "malloc1"
                  ELSE "memset"
    /\ UNCHANGED <<esp32, assertsOn, lutMem, begun, shiftVars, config,
                   backgroundBuffers, roleVars, swapPending, appVars, isrVars,
                   histVars>>

\* memset(backgroundBuffers[0], 0x00, ..); memset(backgroundBuffers[1], 0x00, ..);
\* through a null pointer the memset faults or does nothing
BeginClear(outcome) ==
    /\ beginpc = "memset"
    /\ backgroundBuffers' =
          [b \in Bufs |-> IF bufferMem[b] = "valid" THEN ZeroBuffer
                          ELSE backgroundBuffers[b]]
    /\ beginpc' = IF \A b \in Bufs : bufferMem[b] = "valid" THEN "test_lut" ELSE outcome
    /\ UNCHANGED <<esp32, assertsOn, bufferMem, lutMem, begun, shiftVars, config,
                   roleVars, swapPending, appVars, isrVars, histVars>>

\* if (!backgroundColorCorrectionLUT)
BeginTestLUT ==
    /\ beginpc = "test_lut"
    /\ beginpc' = IF lutMem = "null" THEN "malloc_lut" ELSE "roles"
    /\ UNCHANGED <<esp32, assertsOn, bufferMem, lutMem, begun, shiftVars, config,
                   backgroundBuffers, roleVars, swapPending, appVars, isrVars,
                   histVars>>

\* backgroundColorCorrectionLUT = malloc(..);
\* assert(backgroundColorCorrectionLUT != NULL);
BeginAllocLUT(got) ==
    /\ beginpc = "malloc_lut"
    /\ lutMem' = got
    /\ beginpc' = IF got = "null" /\ assertsOn THEN "aborted" ELSE "roles"
    /\ UNCHANGED <<esp32, assertsOn, bufferMem, begun, shiftVars, config,
                   backgroundBuffers, roleVars, swapPending, appVars, isrVars,
                   histVars>>

BeginNext ==
    \/ BeginEnter
    \/ \E b \in Bufs, got \in MallocResults : BeginAllocBuffer(b, got)
    \/ \E outcome \in {"fault", "test_lut"} : BeginClear(outcome)
    \/ BeginTestLUT
    \/ \E got \in MallocResults : BeginAllocLUT(got)
    \/ Begin

BeginSpec == BeginInit /\ [][BeginNext]_vars

\* ------------------------------------------------------------------ claims

\* the application can observe the layer: begin() has run and it is not preempted
\* by frameRefreshCallback
AppObservable == begun /\ ~InCallback

\* row y of a buffer's contents
RowOf(buf, y) == [i \in 1 .. matrixWidth |-> buf[(y * matrixWidth) + (i - 1)]]

InSwapBuffers == pc \in {"sb_wait1", "sb_set", "sb_wait2", "sb_select", "sb_copy"}

\* C1: role invariant.  At every instant the application can observe after
\* begin(), currentDrawBuffer and currentRefreshBuffer are two different indices
\* in {0,1}: one buffer holds the draw role and the other the refresh role.
C1_RoleInvariant ==
    AppObservable =>
        /\ currentDrawBuffer \in Bufs
        /\ currentRefreshBuffer \in Bufs
        /\ currentDrawBuffer # currentRefreshBuffer

\* the roles as they are after an odd number of exchanges, seen by the application
C1_Witness ==
    /\ AppObservable
    /\ currentDrawBuffer = 1
    /\ currentRefreshBuffer = 0

\* C2: swap correctness.  When handleBufferSwap completes a swap requested by
\* swapBuffers(false), the buffer that held the draw role when it began holds
\* the refresh role, the other one the draw role, and every row read through
\* currentRefreshBufferPtr is the row the draw buffer held before the swap;
\* frameRefreshCallback itself changes no pixel.
C2_SwapCorrectness ==
    [][ /\ InCallback => backgroundBuffers' = backgroundBuffers
        /\ (isrpc = "hbs_1018" /\ pc # "sb_wait2") =>
              /\ currentRefreshBuffer' = entryDraw
              /\ currentDrawBuffer' = entryRefresh
              /\ \A y \in 0 .. (matrixHeight - 1) :
                    GetCurrentRefreshRow(y)' = RowOf(backgroundBuffers[entryDraw], y)
      ]_vars

\* a swap requested by swapBuffers(false) has just been performed and the frame
\* handed over has pixels drawn by the application
C2_Witness ==
    /\ isrpc = "lut"
    /\ sawPending
    /\ pc = "idle"
    /\ currentRefreshBuffer = entryDraw
    /\ backgroundBuffers[currentRefreshBufferPtr] # ZeroBuffer

\* C3: copy-swap correctness.  When swapBuffers(true) returns, the buffer holding
\* the draw role equals the buffer holding the refresh role cell for cell.
C3_CopySwapCorrectness ==
    [][ (pc = "sb_copy" /\ pc' = "idle") =>
            backgroundBuffers'[currentDrawBuffer'] = backgroundBuffers'[currentRefreshBuffer']
      ]_vars

\* swapBuffers(true) is about to copy its last cell, which differs between the
\* two buffers, of a frame that is not blank
C3_Witness ==
    /\ pc = "sb_copy"
    /\ cpIdx = CopyLength - 1
    /\ backgroundBuffers[cpDst][cpIdx] # backgroundBuffers[cpSrc][cpIdx]
    /\ backgroundBuffers[cpSrc] # ZeroBuffer

\* C4: the copy of swapBuffers(true) uses the roles after the exchange.  While
\* it copies, the swap it requested has been performed, the source is the buffer
\* holding the refresh role, the destination the buffer holding the draw role,
\* and no step changes the buffer holding the refresh role.
C4_CopyUsesPostSwapRoles ==
    [][ pc = "sb_copy" =>
            /\ outstanding = 0
            /\ cpSrc = BackgroundBuffersPtr(currentRefreshBuffer)
            /\ cpDst = BackgroundBuffersPtr(currentDrawBuffer)
            /\ cpSrc = currentRefreshBufferPtr
            /\ backgroundBuffers'[currentRefreshBuffer] = backgroundBuffers[currentRefreshBuffer]
      ]_vars

\* a refresh tick preempts the copy after it has copied some cells
C4_Witness ==
    /\ pc = "sb_copy"
    /\ cpIdx > 0
    /\ InCallback
    /\ backgroundBuffers[cpSrc] # ZeroBuffer

\* C5 as claimed: no step of the application ever changes the buffer that holds
\* the refresh role at the instant of the write.
C5_NoTearing_Original ==
    [][ backgroundBuffers'[currentRefreshBuffer] = backgroundBuffers[currentRefreshBuffer]
      ]_vars

\* C5 amended: a write changes the buffer holding the refresh role only if it is
\* the store of a drawPixel that loaded currentDrawBufferPtr while a swap was
\* pending; every write begun while no swap is pending, and the copy of
\* swapBuffers(true), leave the refresh buffer alone.
C5_NoTearingOutsidePendingSwap ==
    [][ (pc = "dp_store" => ~dpStartedPending) =>
            backgroundBuffers'[currentRefreshBuffer] = backgroundBuffers[currentRefreshBuffer]
      ]_vars

\* a refresh tick preempts, between the load of the pointer and the store, a
\* drawPixel begun with no swap pending, after the roles have been exchanged
C5_Witness ==
    /\ pc = "dp_store"
    /\ ~dpStartedPending
    /\ InCallback
    /\ currentDrawBuffer = 1

\* C6: after begin(), swapPending goes from true to false only in the last
\* statement of handleBufferSwap, in the refresh context, with the two roles
\* exchanged with respect to the roles at its entry; no application step clears it.
C6_ClearedOnlyByExchange ==
    [][ (begun /\ swapPending /\ ~swapPending') =>
            /\ isrpc = "hbs_1018"
            /\ pc' = pc
            /\ entryDraw # entryRefresh
            /\ currentDrawBuffer' = entryRefresh
            /\ currentRefreshBuffer' = entryDraw
      ]_vars

\* the flag set by swapBuffers(true) has just been cleared by handleBufferSwap,
\* while the application spins in the second loop
C6_Witness ==
    /\ isrpc = "lut"
    /\ sawPending
    /\ ~swapPending
    /\ pc = "sb_wait2"

\* C7: ordering.  During the compositing pass of a tick, the refresh pointer, and
\* the pointer fillRefreshRow has read through, address the buffer that held the
\* draw role at the tick's entry if the flag was set when the tick's
\* handleBufferSwap ran, and the buffer that held the refresh role at entry if
\* not, whatever swapBuffers has set since.
C7_Ordering ==
    isrpc = "rows" =>
        LET expected == IF sawPending THEN entryDraw ELSE entryRefresh IN
        /\ currentRefreshBufferPtr = BackgroundBuffersPtr(expected)
        /\ fillPtr \in {-1, BackgroundBuffersPtr(expected)}

\* tick N found no swap pending, a swap was requested after its handleBufferSwap
\* ran, and the pass has composited a row from the old refresh buffer
C7_Witness ==
    /\ isrpc = "rows"
    /\ ~sawPending
    /\ swapPending
    /\ fillPtr = BackgroundBuffersPtr(entryRefresh)
    /\ entryRefresh = 0

\* C8: bounded wait.  A handleBufferSwap that returns while the application is
\* in one of the loops of swapBuffers leaves the flag false, so that loop ends at
\* the first tick; and if ticks keep occurring every call of swapBuffers returns.
C8_BoundedWait ==
    /\ [][ (pc \in {"sb_wait1", "sb_wait2"} /\ isrpc # "lut" /\ isrpc' = "lut") =>
               ~swapPending'
         ]_vars
    /\ (InSwapBuffers ~> pc = "idle")

\* swapBuffers(true) waits in its first loop for a previous swap
C8_Witness ==
    /\ pc = "sb_wait1"
    /\ copy
    /\ swapPending
    /\ isrpc = "idle"

\* C9: no redundant or withdrawn swap.  swapBuffers is about to set the flag only
\* when it is clear, and whenever the application can observe the layer the
\* number of requests made minus the number of exchanges performed is one if a
\* request is pending and zero if not.
C9_NoRedundantSwap ==
    AppObservable =>
        /\ pc = "sb_set" => ~swapPending
        /\ outstanding = (IF swapPending THEN 1 ELSE 0)

\* a second request is pending, the first one performed
C9_Witness ==
    /\ AppObservable
    /\ currentDrawBuffer = 1
    /\ outstanding = 1
    /\ swapPending

\* C10: handleBufferSwap with no swap pending changes neither the roles, the
\* pointers, the flag nor the buffers and returns; with a swap pending it keeps
\* the flag set until the last statement, and when that statement clears it the
\* two indices are exchanged with respect to the entry and both pointers address
\* the buffers now holding their roles.
C10_HandleBufferSwapEffect ==
    [][ /\ (isrpc = "hbs_check" /\ ~swapPending) =>
              /\ isrpc' = "lut"
              /\ UNCHANGED <<roleVars, swapPending, backgroundBuffers>>
        /\ (isrpc = "hbs_check" /\ swapPending) => isrpc' = "hbs_1010"
        /\ isrpc \in {"hbs_1010", "hbs_1012", "hbs_1013", "hbs_1015", "hbs_1016"} =>
              (swapPending /\ swapPending' /\ isrpc' # "lut")
        /\ isrpc = "hbs_1018" =>
              /\ isrpc' = "lut"
              /\ ~swapPending'
              /\ currentDrawBuffer = entryRefresh
              /\ currentRefreshBuffer = entryDraw
              /\ currentDrawBufferPtr = BackgroundBuffersPtr(currentDrawBuffer)
              /\ currentRefreshBufferPtr = BackgroundBuffersPtr(currentRefreshBuffer)
              /\ UNCHANGED <<roleVars, backgroundBuffers>>
      ]_vars

\* handleBufferSwap has just returned without a swap pending, the roles being
\* those left by an earlier exchange and a frame being drawn
C10_Witness ==
    /\ isrpc = "lut"
    /\ ~sawPending
    /\ ~swapPending
    /\ currentDrawBuffer = 1
    /\ backgroundBuffers[currentDrawBufferPtr] # ZeroBuffer

\* -------------------------------------------------- claims on the compositor

\* this step is a call of fillRefreshRow for row rowY
FillStep == isrpc = "rows" /\ rowY' = rowY + 1

\* C11: whenever fillRefreshRow runs with color correction enabled and indexes
\* the table, the table was rebuilt from the brightness value this call blends
\* with, also when setBrightness is called between the refresh tick and the
\* compositing of that frame's rows.
C11_LUTMatchesBrightness ==
    [][ (FillStep /\ ccEnabled /\ ~Bails(rowY)) =>
            backgroundColorCorrectionLUT = backgroundBrightness
      ]_vars

\* the channels of the pixels fillRefreshRow(hardwareY, ..) looks up in the table
LookedUp(hardwareY) ==
    {GetCurrentRefreshRow(hardwareY)[i][c] :
        i \in {j \in 1 .. matrixWidth : ~ChromaSkip(GetCurrentRefreshRow(hardwareY)[j])},
        c \in Channels}

\* C12: with color correction enabled, for every channel value and every
\* brightnessShifts in 0 .. 4, the index fillRefreshRow reads the table at is
\* inside the table: channel << brightnessShifts in 0 .. 255 for 24 bit pixels,
\* channel >> (4 - brightnessShifts) in 0 .. 4095 for 48 bit pixels.
C12_LUTIndexInTable ==
    [][ (FillStep /\ ccEnabled /\ ~Bails(rowY)) =>
            \A channel \in LookedUp(rowY) :
                LUTIndex(channel, brightnessShifts) \in 0 .. (LUTSize - 1)
      ]_vars

\* ------------------------------------------ claims on the drawing operations

\* the logical points inside the logical area
LogicalPoints == (0 .. (localWidth - 1)) \X (0 .. (localHeight - 1))

\* the points the application passes
PassedPoints == XCoords \X YCoords

\* the contents of the draw buffer
DrawBuffer == backgroundBuffers[currentDrawBufferPtr]

\* the hardware cell of logical (x, y) as the claim states it
StatedCell(x, y) ==
    CASE layerRotation = "rotation0" -> <<x, y>>
      [] layerRotation = "rotation180" -> <<matrixWidth - 1 - x, matrixHeight - 1 - y>>
      [] layerRotation = "rotation90" -> <<matrixWidth - 1 - y, x>>
      [] layerRotation = "rotation270" -> <<y, matrixHeight - 1 - x>>

\* C13: for every logical (x, y) inside the logical area (the panel's
\* dimensions, transposed under rotation90 and rotation270), drawPixel and
\* readPixel address the hardware cell (x, y) under rotation0,
\* (W-1-x, H-1-y) under rotation180, (W-1-y, x) under rotation90 and
\* (y, H-1-x) under rotation270, and that cell is inside the panel.
C13_RotationMapping ==
    /\ localWidth = (IF layerRotation \in {"rotation90", "rotation270"}
                     THEN matrixHeight ELSE matrixWidth)
    /\ localHeight = (IF layerRotation \in {"rotation90", "rotation270"}
                      THEN matrixWidth ELSE matrixHeight)
    /\ \A pt \in LogicalPoints :
          LET hw == StatedCell(pt[1], pt[2])
              at == (hw[2] * matrixWidth) + hw[1]
          IN  /\ hw[1] \in 0 .. (matrixWidth - 1)
              /\ hw[2] \in 0 .. (matrixHeight - 1)
              /\ DrawPixel(pt[1], pt[2]) = {at}
              /\ ReadPixelCell(pt[1], pt[2]) = at
              /\ ReadPixel(pt[1], pt[2]) = DrawBuffer[at]

\* under rotation90 a pixel has been drawn at the logical corner
\* (localWidth - 1, 0), which is the hardware corner (W - 1, H - 1)
C13_Witness ==
    /\ layerRotation = "rotation90"
    /\ pc = "idle"
    /\ DrawBuffer[NumCells - 1] # ZeroPixel
    /\ \A c \in Cells \ {NumCells - 1} : DrawBuffer[c] = ZeroPixel

\* C14: the mapping is invertible on the logical area, so that
\* drawPixel(x, y, c) followed by readPixel(x, y) returns c and no other
\* logical pixel of the draw buffer reads differently than before.
C14_RoundTrip ==
    /\ \A pt \in LogicalPoints, qt \in LogicalPoints :
          (MapToHardware(pt[1], pt[2]) = MapToHardware(qt[1], qt[2])) => (pt = qt)
    /\ \A pt \in LogicalPoints, color \in Pixels :
          LET drawn == StoreAll(DrawBuffer, DrawPixel(pt[1], pt[2]), color)
          IN  /\ ReadPixelOn(drawn, pt[1], pt[2]) = color
              /\ \A qt \in LogicalPoints \ {pt} :
                    ReadPixelOn(drawn, qt[1], qt[2]) = ReadPixel(qt[1], qt[2])

\* under rotation270 one pixel has been drawn: readPixel finds it at the
\* logical point (0, localHeight - 1) and at no other
C14_Witness ==
    /\ layerRotation = "rotation270"
    /\ pc = "idle"
    /\ ReadPixel(0, localHeight - 1) # ZeroPixel
    /\ \A qt \in LogicalPoints \ {<<0, localHeight - 1>>} :
          ReadPixel(qt[1], qt[2]) = ZeroPixel

\* the passed points outside the logical area
OutsidePoints ==
    {pt \in PassedPoints :
        pt[1] < 0 \/ pt[2] < 0 \/ pt[1] >= localWidth \/ pt[2] >= localHeight}

\* C15: under every rotation, drawPixel with a coordinate outside the logical
\* area stores nothing, so both buffers are left as they are, and no drawPixel
\* changes the roles or the pending flag; readPixel outside the area returns
\* the pixel (0, 0, 0) and reads no cell of a buffer.
C15_OutOfBounds ==
    [][ /\ \A pt \in OutsidePoints :
              /\ DrawPixel(pt[1], pt[2]) = {}
              /\ \A b \in Bufs, color \in Pixels :
                    StoreAll(backgroundBuffers[b], DrawPixel(pt[1], pt[2]), color)
                        = backgroundBuffers[b]
              /\ ReadPixelCell(pt[1], pt[2]) = -1
              /\ ReadPixel(pt[1], pt[2]) = ZeroPixel
        /\ pc = "dp_store" =>
              /\ UNCHANGED <<roleVars, swapPending>>
              /\ backgroundBuffers'[currentRefreshBufferPtr]
                    = backgroundBuffers[currentRefreshBufferPtr]
              /\ \/ backgroundBuffers' = backgroundBuffers
                 \/ \E pt \in LogicalPoints :
                       \A c \in Cells \ DrawPixel(pt[1], pt[2]) :
                           backgroundBuffers'[dpPtr][c] = backgroundBuffers[dpPtr][c]
      ]_vars

\* under rotation180 a drawPixel is at its store on a screen filled with a
\* color that is not (0, 0, 0): readPixel outside the area differs from every
\* pixel of the buffer
C15_Witness ==
    /\ layerRotation = "rotation180"
    /\ pc = "dp_store"
    /\ \A c \in Cells : DrawBuffer[c] # ZeroPixel
    /\ ReadPixel(localWidth, 0) = ZeroPixel

\* the offsets drawPixel stores at for the points (xa .. xb, y), any order
PixelsOfHLine(xa, xb, y) ==
    UNION {DrawPixel(i, y) : i \in Min(xa, xb) .. Max(xa, xb)}

\* the offsets drawPixel stores at for the points (x, ya .. yb), any order
PixelsOfVLine(x, ya, yb) ==
    UNION {DrawPixel(x, i) : i \in Min(ya, yb) .. Max(ya, yb)}

\* C16: under every rotation and for all arguments, outside the area or in
\* reverse order too, drawFastHLine(x0, x1, y, c) and drawFastVLine(x, y0, y1, c)
\* leave the draw buffer as drawPixel called for each logical point of the
\* line leaves it, and store at no offset outside the buffer.
C16_FastLines ==
    /\ \A x0 \in XCoords, x1 \in XCoords, y \in YCoords :
          /\ DrawFastHLine(x0, x1, y) \subseteq Cells
          /\ \A color \in Pixels :
                StoreAll(DrawBuffer, DrawFastHLine(x0, x1, y), color)
                    = StoreAll(DrawBuffer, PixelsOfHLine(x0, x1, y), color)
    /\ \A x \in XCoords, y0 \in YCoords, y1 \in YCoords :
          /\ DrawFastVLine(x, y0, y1) \subseteq Cells
          /\ \A color \in Pixels :
                StoreAll(DrawBuffer, DrawFastVLine(x, y0, y1), color)
                    = StoreAll(DrawBuffer, PixelsOfVLine(x, y0, y1), color)

\* under rotation180 a horizontal line has been drawn along the logical row 0
\* from x = 1 on: the hardware row H - 1 is drawn but for its last cell
C16_Witness ==
    /\ layerRotation = "rotation180"
    /\ pc = "idle"
    /\ \A c \in Cells :
          (DrawBuffer[c] # ZeroPixel) <=>
              (c \in (NumCells - matrixWidth) .. (NumCells - 2))

\* ------------------------------------------- claims on fillRefreshRow's rows

\* the pixels of the refresh buffer's row that this call of fillRefreshRow is for
SourceRow == GetCurrentRefreshRow(rowY)

\* the columns of that row that do not hold the key color of an enabled chroma key
Unkeyed == {i \in 1 .. matrixWidth : ~(chromaKeyEnabled /\ SourceRow[i] = chromaKeyColor)}

\* the corrected pixel of column i, in the row's pixel type, for some content of
\* the memory the table does not determine
IsCorrected(pixel, i) ==
    \E stray \in StrayValues :
        pixel = ConvertPixel(NewPixel(SourceRow[i], brightnessShifts, stray),
                             wideRGB, wideRow)

\* a fillRefreshRow has returned for row 0, which holds a pixel of the key
\* color and one that is not
FilledRowZero ==
    /\ isrpc = "rows"
    /\ rowY = 1
    /\ \E i \in 1 .. matrixWidth : GetCurrentRefreshRow(0)[i] = chromaKeyColor
    /\ \E i \in 1 .. matrixWidth : GetCurrentRefreshRow(0)[i] # chromaKeyColor

\* C17: fillRefreshRow with brightness 0 leaves every entry of the output row
\* unchanged, for rows of rgb24 and of rgb48 and for every setting of the
\* chroma key, the color correction and brightnessShifts.
C17_BrightnessZero ==
    [][ (FillStep /\ backgroundBrightness = 0) => refreshRow' = refreshRow ]_vars

\* a corrected, chroma keyed layer of brightness 0 has been composited into a
\* row of rgb48 that was not black, with brightnessShifts 4
C17_Witness ==
    /\ FilledRowZero
    /\ backgroundBrightness = 0
    /\ wideRow /\ ccEnabled /\ chromaKeyEnabled
    /\ brightnessShifts = MaxBrightnessShifts
    /\ refreshRow # ZeroRow

C19_ChromaKeyPerPixel ==
    [][ (FillStep /\ chromaKeyEnabled) =>
            \A i \in 1 .. matrixWidth :
                (SourceRow[i] = chromaKeyColor) => (refreshRow'[i] = refreshRow[i])
      ]_vars

\* a chroma keyed layer at brightness 128 has been composited into a black row
\* inside the overlay lines: the column of the key color is still black, the
\* other is not
C19_Witness ==
    /\ FilledRowZero
    /\ backgroundBrightness = 128
    /\ chromaKeyEnabled
    /\ firstOverlayLine = 0
    /\ rowRead # << >>
    /\ \E i \in 1 .. matrixWidth :
          GetCurrentRefreshRow(0)[i] = chromaKeyColor /\ refreshRow[i] = ZeroPixel
    /\ \E i \in 1 .. matrixWidth :
          GetCurrentRefreshRow(0)[i] # chromaKeyColor /\ refreshRow[i] # ZeroPixel

\* C20: when the chroma key is enabled and hardwareY is below firstOverlayLine
\* or above lastOverlayLine, fillRefreshRow changes nothing and reads no pixel
\* of the refresh buffer; for hardwareY from firstOverlayLine to lastOverlayLine
\* the row is composited.
C20_ChromaLineBounds ==
    [][ (FillStep /\ chromaKeyEnabled) =>
            IF rowY < firstOverlayLine \/ rowY > lastOverlayLine
            THEN /\ refreshRow' = refreshRow
                 /\ rowRead' = << >>
                 /\ fillPtr' = -1
                 /\ UNCHANGED <<shared, backgroundColorCorrectionLUT>>
            ELSE \A i \in 1 .. matrixWidth :
                    \E stray \in StrayValues :
                        refreshRow'[i] =
                            ComposePixel(refreshRow[i], SourceRow[i], brightnessShifts, stray)
      ]_vars

\* with the overlay lines 1 .. 1, row 0 has been skipped and row 1 composited at
\* brightness 255 into a row that was black
C20_Witness ==
    /\ isrpc = "rows"
    /\ rowY = 2
    /\ chromaKeyEnabled
    /\ firstOverlayLine = 1 /\ lastOverlayLine = 1
    /\ backgroundBrightness = FullBrightness
    /\ rowRead = GetCurrentRefreshRow(1)
    /\ \E i \in 1 .. matrixWidth : refreshRow[i] # ZeroPixel


\* ------------------------------------------------ claims on the uncorrected path

\* C21: with color correction disabled, for every channel of a pixel that
\* fillRefreshRow composites and every brightnessShifts in 0 .. 4, the channel of
\* newPixel is channel * 2^brightnessShifts and fits the width of the layer's
\* pixel type, and the channel stored into the row fits the row's pixel type.
C21_NoOverflowUncorrected ==
    [][ (FillStep /\ ~ccEnabled /\ ~Bails(rowY)) =>
            \A i \in Unkeyed, c \in Channels :
                /\ SourceRow[i][c] * (2 ^ brightnessShifts) < ChannelRange(wideRGB)
                /\ NewPixel(SourceRow[i], brightnessShifts, 0)[c]
                       = SourceRow[i][c] * (2 ^ brightnessShifts)
                /\ refreshRow'[i][c] \in 0 .. (ChannelRange(wideRow) - 1)
      ]_vars


\* ------------------------------------------------------------ claims on begin()

\* C22: when begin() has returned, both frame buffer pointers and the pointer to
\* the table are not null, buffer 0 is the draw buffer, buffer 1 the refresh
\* buffer and no swap is pending; begin() does not return when one of its
\* allocations failed.  This holds after either constructor.
C22_BeginHasMemory ==
    beginpc = "done" =>
        /\ \A b \in Bufs : bufferMem[b] # "null"
        /\ lutMem # "null"
        /\ currentDrawBuffer = 0
        /\ currentRefreshBuffer = 1
        /\ currentDrawBufferPtr = BackgroundBuffersPtr(0)
        /\ currentRefreshBufferPtr = BackgroundBuffersPtr(1)
        /\ ~swapPending


\* ------------------------------------------------- claims on the refresh context

\* this step is taken by the refresh context: frameRefreshCallback with its
\* handleBufferSwap, or the driver's compositing pass
RefreshStep == isrpc' # isrpc \/ rowY' # rowY

\* C23: no step of the refresh context, frameRefreshCallback, handleBufferSwap or
\* fillRefreshRow, changes the contents of a frame buffer; the contents change
\* only by a store of the application's drawPixel and by the copy of
\* swapBuffers(true).
C23_RefreshKeepsPixels ==
    [][ /\ RefreshStep => backgroundBuffers' = backgroundBuffers
        /\ backgroundBuffers' # backgroundBuffers =>
              \/ pc = "dp_store" /\ pc' = "idle"
              \/ pc = "sb_copy" /\ copy
      ]_vars

\* a swap has been performed and the whole frame composited from a buffer the
\* application has drawn into
C23_Witness ==
    /\ isrpc = "rows"
    /\ rowY = matrixHeight
    /\ sawPending
    /\ backgroundBuffers[currentRefreshBufferPtr] # ZeroBuffer
    /\ rowRead = GetCurrentRefreshRow(matrixHeight - 1)


\* C24: every frameRefreshCallback runs handleBufferSwap first and then rebuilds
\* the table exactly once, for the brightness of that moment and with the
\* generator of the size the table was allocated with; the callback waits for
\* nothing, whatever the state of the swap.
C24_TickSequence ==
    /\ [](GeneratorSize = LUTSize)
    /\ [](InCallback => ENABLED RefreshNext)
    /\ [][ /\ (isrpc # "lut" /\ isrpc' = "lut") => isrpc \in {"hbs_check", "hbs_1018"}
           /\ (isrpc = "hbs_check" /\ isrpc' # "hbs_check") => isrpc' \in {"hbs_1010", "lut"}
           /\ (isrpc = "lut" /\ isrpc' # "lut") =>
                 /\ isrpc' = "rows"
                 /\ backgroundColorCorrectionLUT' = backgroundBrightness
           /\ backgroundColorCorrectionLUT' # backgroundColorCorrectionLUT =>
                 isrpc = "lut"
           /\ (InCallback /\ isrpc' = isrpc) => UNCHANGED vars
         ]_vars

\* a callback that performed a swap has rebuilt the table for a brightness the
\* application had set since the table was last rebuilt
C24_Witness ==
    /\ isrpc = "rows"
    /\ rowY = 0
    /\ sawPending
    /\ backgroundColorCorrectionLUT = 128
    /\ backgroundBrightness = 128

\* ----------------------------------------------------- claims on whole frames

\* the display is plain: full brightness, no color correction, no chroma key,
\* no brightness shifts, rotation0
PlainFrame ==
    /\ layerRotation = "rotation0"
    /\ backgroundBrightness = FullBrightness
    /\ ~ccEnabled
    /\ ~chromaKeyEnabled
    /\ brightnessShifts = 0

\* pixel p in the pixel type of the driver's rows
InRow(p) == ConvertPixel(p, wideRGB, wideRow)

\* C25: with rotation0, brightness 255, color correction and chroma key disabled
\* and brightnessShifts 0, when the application has filled the draw buffer with
\* a pixel p and called swapBuffers(false) and a refresh tick has exchanged the
\* buffers, fillRefreshRow reads the buffer that was filled and leaves, for
\* every hardware row, a row whose every pixel is p.
C25_FrameHandOver ==
    [][ (FillStep /\ sawPending /\ PlainFrame) =>
            /\ fillPtr' = BackgroundBuffersPtr(entryDraw)
            /\ \A p \in FramePixels :
                   backgroundBuffers[entryDraw] = [c \in Cells |-> p] =>
                       refreshRow' = [i \in 1 .. matrixWidth |-> InRow(p)]
      ]_vars

\* the last row of rgb24 has been composited from the narrow frame of
\* (10, 20, 30) handed over at this tick, while the application has filled the
\* other buffer with another pixel
C25_Witness ==
    /\ isrpc = "rows"
    /\ rowY = matrixHeight
    /\ sawPending
    /\ PlainFrame
    /\ ~wideRGB /\ ~wideRow
    /\ backgroundBuffers[entryDraw] = [c \in Cells |-> <<10, 20, 30>>]
    /\ backgroundBuffers[entryRefresh] = [c \in Cells |-> <<200, 100, 50>>]
    /\ refreshRow = [i \in 1 .. matrixWidth |-> <<10, 20, 30>>]


\* ------------------------------------------------------ claims on the pointers

\* C26: in every state the application can observe, reached through begin,
\* drawing, swapBuffers, refresh ticks and setBackBuffer, currentDrawBufferPtr is
\* backgroundBuffers[currentDrawBuffer] and currentRefreshBufferPtr is
\* backgroundBuffers[currentRefreshBuffer]: backBuffer() and getRealBackBuffer()
\* return the same buffer.
C26_PointerRoleConsistency ==
    AppObservable =>
        /\ currentDrawBufferPtr = BackgroundBuffersPtr(currentDrawBuffer)
        /\ currentRefreshBufferPtr = BackgroundBuffersPtr(currentRefreshBuffer)


\* ------------------------------------------- claims on writes and pending swaps

\* C27: a pixel that drawPixel stores after swapBuffers(false) has returned and
\* before the next handleBufferSwap runs lands in the buffer that holds the draw
\* role, which that handleBufferSwap makes the refresh buffer; fillRefreshRow
\* reads it there in the frame that follows the swap.
C27_PendingWritesShown ==
    [][ /\ (lateStore' # lateStore /\ lateStore' # -1) =>
               /\ swapPending /\ dpStartedPending
               /\ lateStore' = BackgroundBuffersPtr(currentDrawBuffer)
        /\ (swapPending /\ ~swapPending' /\ lateStore # -1) =>
               /\ currentRefreshBuffer' = lateStore
               /\ currentRefreshBufferPtr' = BackgroundBuffersPtr(lateStore)
        /\ (FillStep /\ sawPending /\ ~swapPending /\ lateStore # -1) =>
               /\ fillPtr' = BackgroundBuffersPtr(lateStore)
               /\ rowRead' = RowOf(backgroundBuffers[lateStore], rowY)
      ]_vars

\* the frame after a swap has been composited from the buffer that drawPixel
\* stored a pixel into while that swap was pending
C27_Witness ==
    /\ isrpc = "rows"
    /\ rowY = matrixHeight
    /\ sawPending
    /\ ~swapPending
    /\ lateStore # -1
    /\ fillPtr = BackgroundBuffersPtr(lateStore)
    /\ \E i \in 1 .. matrixWidth : rowRead[i] # ZeroPixel


\* C28: a number of brightness shifts asked for with setBrightnessShifts(n), n in
\* 0 .. 4, is what getRequestedBrightnessShifts() returns once the next swap has
\* been requested and a refresh tick has performed it.
C28_ShiftsTakeEffect ==
    [][ (swapPending /\ ~swapPending') =>
            idealBrightnessShifts' = pendingIdealBrightnessShifts
      ]_vars


\* ------------------------------------------------- claims on the chroma key

\* what fillRefreshRow leaves in column i when the chroma key is disabled
WithoutChromaKey(i, stray) ==
    IF backgroundBrightness = 0 THEN refreshRow[i]
    ELSE LET newPixel == NewPixel(SourceRow[i], brightnessShifts, stray) IN
         IF ~wideRow /\ backgroundBrightness = FullBrightness
         THEN ConvertPixel(newPixel, wideRGB, wideRow)
         ELSE Blend(refreshRow[i], newPixel)

\* C29: enabling the chroma key changes the output only at pixels of the key
\* color: for every hardware row, refresh buffer and prior row, fillRefreshRow
\* with the chroma key enabled leaves in every column whose source pixel is not
\* the key color what it leaves there with the chroma key disabled, whatever
\* firstOverlayLine and lastOverlayLine are.
C29_ChromaKeyOnlyAtKeyPixels ==
    [][ (FillStep /\ chromaKeyEnabled) =>
            \A i \in Unkeyed :
                \E stray \in StrayValues : refreshRow'[i] = WithoutChromaKey(i, stray)
      ]_vars


\* ------------------------------------------------------ claims on swapBuffers

\* C30: swapBuffers(false) called while no swap is pending needs no refresh tick:
\* its loop is left at once, the flag is set and the call returns; it waits only
\* while a previous swap is pending.  After begin(), isSwapPending() then returns
\* true until the next handleBufferSwap, which clears the flag before it returns.
C30_SwapBuffersNonBlocking ==
    /\ []((AppRuns /\ pc = "sb_wait1" /\ ~swapPending) => ENABLED SbWait1Exit)
    /\ []((AppRuns /\ pc = "sb_set") => ENABLED SbSet)
    /\ [][ /\ (pc = "sb_wait1" /\ pc' # "sb_wait1") => (~swapPending /\ pc' = "sb_set")
           /\ (pc = "sb_set" /\ pc' # "sb_set" /\ ~copy) => (swapPending' /\ pc' = "idle")
           /\ (begun /\ swapPending /\ ~swapPending') =>
                 (isrpc = "hbs_1018" /\ isrpc' = "lut")
           /\ (isrpc # "lut" /\ isrpc' = "lut") => ~swapPending'
         ]_vars

\* swapBuffers(false), called with no swap pending, has returned before any
\* refresh tick has begun, and the flag is set
C30_Witness ==
    /\ pc = "idle"
    /\ swapPending
    /\ outstanding = 1
    /\ isrpc = "idle"
    /\ backgroundColorCorrectionLUT = -1
    /\ begun

=============================================================================
